---- MODULE Spec2Model ----
(***************************************************************************)
(* Player assists tracker: the in-memory server (server.js), the SQLite    *)
(* routes (routes/players.js, routes/assists.js), the assist ledger they   *)
(* maintain, and the browser client (script.js).                           *)
(***************************************************************************)
EXTENDS Integers, Sequences, FiniteSets

VARIABLES
    players,        \* server.js: let players = [...]
    assistHistory,  \* server.js: let assistHistory = []
    clock,          \* number of Date() readings taken by successful applies
    resp,           \* the response to the last request of the in-memory server
    before,         \* the assists and assistHistory as they were before the last successful apply
    issued,         \* issued[t]: the assistLogId returned by the apply with timestamp t
    undone,         \* ids i whose own entry a DELETE i removed since the last apply
    dbPlayers,      \* SQLite table players, in rowid order
    dbAssists,      \* SQLite table assists
    dbSeq,          \* sqlite_sequence of table assists (AUTOINCREMENT)
    req,            \* SQLite routes: the request on each connection
    snap,           \* the storage as the request on each connection found it
    started,        \* requests the SQLite routes have accepted
    faults,         \* storage errors and process stops so far
    vercel,         \* script.js: window.location.hostname.includes('vercel.app')
    page,           \* script.js: "loaded", "booting" (bootstrapUI awaits), "ready" (listeners attached)
    cplayers,       \* script.js: let players = []
    lastAssistLogId,\* script.js: let lastAssistLogId = null (NoId)
    isMutating,     \* script.js: let isMutating = false
    errorCount,     \* script.js: let errorCount = 0
    lastKnownState, \* script.js: let lastKnownState = null
    pending,        \* script.js: the fetches and timers the client awaits
    localOps,       \* changes the client has made to its own list only
    connFailures,   \* fetches of the client that the network has failed
    failedRefreshes,\* failed refreshes since the last successful one
    event           \* the client function that ran last, and how it ended

memVars == <<players, assistHistory, clock, resp, before, issued, undone>>
sqlVars == <<dbPlayers, dbAssists, dbSeq, req, snap, started, faults>>
clientVars == <<vercel, page, cplayers, lastAssistLogId, isMutating, errorCount,
                lastKnownState, pending, localOps, connFailures, failedRefreshes, event>>

vars == <<memVars, sqlVars, clientVars>>

----------------------------------------------------------------------------
(* Bounds *)

\* successful applies (add-assists / reduce-assists) in one run of the in-memory server
MaxApplies == 2

\* changes the client makes to its own list in demo mode
MaxLocalOps == 2

\* fetches and timers the client has outstanding at one time
MaxInFlight == 2

----------------------------------------------------------------------------
(* Seed data *)

SeedPlayers ==
    << [id |-> 1,  name |-> "Bobby Hurley",    assists |-> 1076, team |-> "Duke",                   color |-> "#001A57", is_braden |-> 0],
       [id |-> 2,  name |-> "Chris Corchiani", assists |-> 1038, team |-> "NC State",               color |-> "#CC0000", is_braden |-> 0],
       [id |-> 3,  name |-> "Ed Cota",         assists |-> 1030, team |-> "North Carolina",         color |-> "#7BAFD4", is_braden |-> 0],
       [id |-> 4,  name |-> "Jason Brickman",  assists |-> 1007, team |-> "Long Island University", color |-> "#002D62", is_braden |-> 0],
       [id |-> 5,  name |-> "Keith Jennings",  assists |-> 983,  team |-> "East Tennessee State",   color |-> "#003366", is_braden |-> 0],
       [id |-> 6,  name |-> "Steve Blake",     assists |-> 972,  team |-> "Maryland",               color |-> "#E03A3E", is_braden |-> 0],
       [id |-> 7,  name |-> "Sherman Douglas", assists |-> 960,  team |-> "Syracuse",               color |-> "#F76900", is_braden |-> 0],
       [id |-> 8,  name |-> "Tony Miller",     assists |-> 956,  team |-> "Marquette",              color |-> "#003366", is_braden |-> 0],
       [id |-> 9,  name |-> "Aaron Miles",     assists |-> 954,  team |-> "Kansas",                 color |-> "#0051BA", is_braden |-> 0],
       [id |-> 10, name |-> "Greg Anthony",    assists |-> 950,  team |-> "Nevada-Las Vegas",       color |-> "#BA0C2F", is_braden |-> 0],
       [id |-> 11, name |-> "Braden Smith",    assists |-> 758,  team |-> "Purdue",                 color |-> "#CEB888", is_braden |-> 1] >>

\* the characters of a player's name, as code points
NameChars(name) ==
    CASE name = "Bobby Hurley"    -> <<66, 111, 98, 98, 121, 32, 72, 117, 114, 108, 101, 121>>
      [] name = "Chris Corchiani" -> <<67, 104, 114, 105, 115, 32, 67, 111, 114, 99, 104, 105, 97, 110, 105>>
      [] name = "Ed Cota"         -> <<69, 100, 32, 67, 111, 116, 97>>
      [] name = "Jason Brickman"  -> <<74, 97, 115, 111, 110, 32, 66, 114, 105, 99, 107, 109, 97, 110>>
      [] name = "Keith Jennings"  -> <<75, 101, 105, 116, 104, 32, 74, 101, 110, 110, 105, 110, 103, 115>>
      [] name = "Steve Blake"     -> <<83, 116, 101, 118, 101, 32, 66, 108, 97, 107, 101>>
      [] name = "Sherman Douglas" -> <<83, 104, 101, 114, 109, 97, 110, 32, 68, 111, 117, 103, 108, 97, 115>>
      [] name = "Tony Miller"     -> <<84, 111, 110, 121, 32, 77, 105, 108, 108, 101, 114>>
      [] name = "Aaron Miles"     -> <<65, 97, 114, 111, 110, 32, 77, 105, 108, 101, 115>>
      [] name = "Greg Anthony"    -> <<71, 114, 101, 103, 32, 65, 110, 116, 104, 111, 110, 121>>
      [] name = "Braden Smith"    -> <<66, 114, 97, 100, 101, 110, 32, 83, 109, 105, 116, 104>>

\* lexicographic order on names (code point by code point, a prefix first)
RECURSIVE CharsLess(_, _)
CharsLess(s, t) ==
    IF t = <<>> THEN FALSE
    ELSE IF s = <<>> THEN TRUE
    ELSE IF Head(s) # Head(t) THEN Head(s) < Head(t)
    ELSE CharsLess(Tail(s), Tail(t))

NameLess(a, b) == CharsLess(NameChars(a), NameChars(b))

----------------------------------------------------------------------------
(* Request parameters: the :id segment of a URL is a string *)

\* the decimal string of a natural number below 100, as code points
IdString(n) == IF n < 10 THEN <<48 + n>> ELSE <<48 + (n \div 10), 48 + (n % 10)>>

IsDigit(c) == c >= 48 /\ c <= 57

RECURSIVE DigitsValue(_, _)
\* the value of the leading run of digits of s, continuing from acc
DigitsValue(s, acc) ==
    IF s = <<>> \/ ~IsDigit(Head(s)) THEN acc
    ELSE DigitsValue(Tail(s), 10 * acc + (Head(s) - 48))

\* JavaScript parseInt(s): optional sign, then the leading digits; NaN without a digit
ParseInt(s) ==
    LET neg  == s # <<>> /\ Head(s) = 45
        body == IF neg THEN Tail(s) ELSE s
    IN  IF body = <<>> \/ ~IsDigit(Head(body))
        THEN [nan |-> TRUE, val |-> 0]
        ELSE [nan |-> FALSE,
              val |-> IF neg THEN 0 - DigitsValue(body, 0) ELSE DigitsValue(body, 0)]

\* JavaScript Number(s) for a non-empty string without blanks: every character
\* after an optional sign must be a digit
ToNumber(s) ==
    LET neg  == s # <<>> /\ Head(s) = 45
        body == IF neg THEN Tail(s) ELSE s
    IN  IF body = <<>> \/ \E k \in 1..Len(body) : ~IsDigit(body[k])
        THEN [nan |-> TRUE, val |-> 0]
        ELSE [nan |-> FALSE,
              val |-> IF neg THEN 0 - DigitsValue(body, 0) ELSE DigitsValue(body, 0)]

\* p.id == id, a number compared with a string
LooseEquals(num, s) == LET v == ToNumber(s) IN ~v.nan /\ v.val = num

\* a field of a JSON request body: a number, or absent (undefined)
Num(n) == [present |-> TRUE, val |-> n]
Missing == [present |-> FALSE, val |-> 0]

\* the :id values of the player requests: two seeded players, an id that does
\* not exist and one that is not a number ("7x")
ReqPlayerIds == {IdString(7), IdString(11), IdString(12), <<55, 120>>}

\* the amounts of add-assists requests
AddAmounts == {Missing} \cup {Num(n) : n \in {-1, 0, 12}}

\* the fixed amounts of reduce-assists requests; the player's current total is
\* offered as well
ReduceAmounts == {Missing} \cup {Num(n) : n \in {-1, 0, 900}}

\* the :id values of DELETE /api/assists/:id: every id an apply can return,
\* 0, one beyond, "x" and "1x"
ReqLogIds == {IdString(n) : n \in 0..(MaxApplies + 1)} \cup {<<120>>, <<49, 120>>}

----------------------------------------------------------------------------
(* server.js: helpers of the handlers *)

\* players.find(p => p.id == id): the index of the first match, 0 when none
FindPlayer(arr, id) ==
    LET matches == {k \in 1..Len(arr) : LooseEquals(arr[k].id, id)}
    IN  IF matches = {} THEN 0 ELSE CHOOSE k \in matches : \A j \in matches : k <= j

\* the lookup that takes the first player whatever the id
FindPlayerFirst(arr, pid) == 1

\* players.find(p => p.id == log.playerId), a number compared with a number
FindPlayerById(arr, pid) ==
    LET matches == {k \in 1..Len(arr) : arr[k].id = pid}
    IN  IF matches = {} THEN 0 ELSE CHOOSE k \in matches : \A j \in matches : k <= j

\* the guard without the comparison: only a missing amount is refused
InvalidAmountMissingOnly(n) == ~n.present

\* !n || n < 1
InvalidAmount(n) == ~n.present \/ n.val = 0 \/ n.val < 1

\* the guard with <= for <: a reduction to exactly 0 is refused
WouldGoNegativeOrZero(player, n) == player.assists - n.val <= 0

\* player.assists - assists_to_remove < 0
WouldGoNegative(player, n) == player.assists - n.val < 0

\* player.assists += assists_to_add
AddedAssists(player, n) == player.assists + n.val

\* player.assists -= assists_to_remove
ReducedAssists(player, n) == player.assists - n.val

\* undo by putting back the total the entry recorded
UndoneAssistsRestored(player, log) == log.previousAssists

\* player.assists -= log.assistsAdded
UndoneAssists(player, log) == player.assists - log.assistsAdded

\* the id taken one beyond the array length
AssistLogIdNext(history) == Len(history) + 1

\* assistLogId: assistHistory.length
AssistLogId(history) == Len(history)

\* parseInt(id) - 1
LogIndex(id) == [nan |-> ParseInt(id).nan, val |-> ParseInt(id).val - 1]

\* logIndex < 0 || logIndex >= assistHistory.length (false for NaN)
LogIndexOutOfRange(logIndex, history) ==
    ~logIndex.nan /\ (logIndex.val < 0 \/ logIndex.val >= Len(history))

\* splice without its count: everything from logIndex on is removed
SpliceToEnd(history, logIndex) == SubSeq(history, 1, logIndex)

\* assistHistory.splice(logIndex, 1), logIndex counted from 0
Splice(history, logIndex) ==
    [k \in 1..(Len(history) - 1) |->
        IF k <= logIndex THEN history[k] ELSE history[k + 1]]

\* (a, b) => b.assists - a.assists
CompareAssists(a, b) == b.assists - a.assists

\* [...players].sort(compare): Array.prototype.sort is stable, so an element
\* goes after those that compare before it and after the equal ones that
\* precede it in the array
SortedPlayers(arr) ==
    LET pos(i) == Cardinality({j \in 1..Len(arr) :
                      \/ CompareAssists(arr[j], arr[i]) < 0
                      \/ (CompareAssists(arr[j], arr[i]) = 0 /\ j < i)}) + 1
    IN  [k \in 1..Len(arr) |-> arr[CHOOSE i \in 1..Len(arr) : pos(i) = k]]

NoId == 0

NoError == ""

\* res.status(status).json({error, data, assistLogId})
Response(op, status, error, logId, data) ==
    [op |-> op, status |-> status, error |-> error, assistLogId |-> logId, data |-> data]

\* every player's assists, in array order
AssistsOf(arr) == [k \in 1..Len(arr) |-> arr[k].assists]

Snapshot == [assists |-> AssistsOf(players), assistHistory |-> assistHistory]

----------------------------------------------------------------------------
(* server.js: the handlers *)

\* the handler sorting the array itself: players.sort(...) without the copy
GetPlayersInPlace ==
    /\ players' = SortedPlayers(players)
    /\ resp' = Response("list", 200, NoError, NoId, players')
    /\ UNCHANGED <<assistHistory, clock, before, issued, undone>>
    /\ UNCHANGED sqlVars

\* app.get('/api/players')
GetPlayers ==
    /\ resp' = Response("list", 200, NoError, NoId, SortedPlayers(players))
    /\ UNCHANGED <<players, assistHistory, clock, before, issued, undone>>
    /\ UNCHANGED sqlVars

\* app.get('/api/assists/recent'): data is the last entry of assistHistory,
\* or null; the entry is kept as a list of one, null as the empty list
GetRecentAssists ==
    /\ resp' = Response("recent", 200, NoError, NoId,
                        IF Len(assistHistory) > 0
                        THEN <<assistHistory[Len(assistHistory)]>>
                        ELSE <<>>)
    /\ UNCHANGED <<players, assistHistory, clock, before, issued, undone>>
    /\ UNCHANGED sqlVars

\* app.post('/api/players/:id/add-assists')
AddAssists(id, n) ==
    LET k == FindPlayer(players, id) IN
    /\ IF k = 0
       THEN /\ resp' = Response("add", 404, "Player not found", NoId, <<>>)
            /\ UNCHANGED <<players, assistHistory, clock, before, issued, undone>>
       ELSE IF InvalidAmount(n)
       THEN /\ resp' = Response("add", 400, "Invalid assists value", NoId, <<>>)
            /\ UNCHANGED <<players, assistHistory, clock, before, issued, undone>>
       ELSE /\ clock < MaxApplies
            /\ clock' = clock + 1
            /\ before' = Snapshot
            /\ assistHistory' = Append(assistHistory,
                    [playerId |-> players[k].id,
                     previousAssists |-> players[k].assists,
                     assistsAdded |-> n.val,
                     timestamp |-> clock + 1])
            /\ players' = [players EXCEPT ![k].assists = AddedAssists(players[k], n)]
            /\ resp' = Response("add", 200, NoError, AssistLogId(assistHistory'), players'[k])
            /\ issued' = Append(issued, AssistLogId(assistHistory'))
            /\ undone' = {}
    /\ UNCHANGED sqlVars

\* app.post('/api/players/:id/reduce-assists')
ReduceAssists(id, n) ==
    LET k == FindPlayer(players, id) IN
    /\ IF k = 0
       THEN /\ resp' = Response("reduce", 404, "Player not found", NoId, <<>>)
            /\ UNCHANGED <<players, assistHistory, clock, before, issued, undone>>
       ELSE IF InvalidAmount(n)
       THEN /\ resp' = Response("reduce", 400, "Invalid assists value", NoId, <<>>)
            /\ UNCHANGED <<players, assistHistory, clock, before, issued, undone>>
       ELSE IF WouldGoNegative(players[k], n)
       THEN /\ resp' = Response("reduce", 400, "Invalid operation", NoId, <<>>)
            /\ UNCHANGED <<players, assistHistory, clock, before, issued, undone>>
       ELSE /\ clock < MaxApplies
            /\ clock' = clock + 1
            /\ before' = Snapshot
            /\ assistHistory' = Append(assistHistory,
                    [playerId |-> players[k].id,
                     previousAssists |-> players[k].assists,
                     assistsAdded |-> 0 - n.val,
                     timestamp |-> clock + 1])
            /\ players' = [players EXCEPT ![k].assists = ReducedAssists(players[k], n)]
            /\ resp' = Response("reduce", 200, NoError, AssistLogId(assistHistory'), players'[k])
            /\ issued' = Append(issued, AssistLogId(assistHistory'))
            /\ undone' = {}
    /\ UNCHANGED sqlVars

\* app.delete('/api/assists/:id')
DeleteAssist(id) ==
    LET logIndex == LogIndex(id) IN
    /\ IF LogIndexOutOfRange(logIndex, assistHistory)
       THEN /\ resp' = Response("delete", 404, "Assist log not found", NoId, <<>>)
            /\ UNCHANGED <<players, assistHistory, clock, before, issued, undone>>
       ELSE IF logIndex.nan
       THEN \* assistHistory[NaN] is undefined and log.playerId throws: the
            \* default error handler answers 500 before anything is changed
            /\ resp' = Response("delete", 500, "TypeError", NoId, <<>>)
            /\ UNCHANGED <<players, assistHistory, clock, before, issued, undone>>
       ELSE LET log == assistHistory[logIndex.val + 1]
                k   == FindPlayerById(players, log.playerId)
            IN  /\ players' = IF k # 0
                              THEN [players EXCEPT ![k].assists = UndoneAssists(players[k], log)]
                              ELSE players
                /\ assistHistory' = Splice(assistHistory, logIndex.val)
                /\ resp' = Response("delete", 200, NoError, NoId,
                                    [deletedLogId |-> id,
                                     assistsSubtracted |-> log.assistsAdded,
                                     playerId |-> log.playerId])
                /\ undone' = IF issued[log.timestamp] = logIndex.val + 1
                             THEN undone \cup {logIndex.val + 1}
                             ELSE undone
                /\ UNCHANGED <<clock, before, issued>>
    /\ UNCHANGED sqlVars

----------------------------------------------------------------------------
(* The SQLite routes: storage *)

\* the connections the server has open at once; every request opens its own
Conns == {1, 2}

\* requests the SQLite routes accept in one run
MaxSqlRequests == 2

\* storage errors and process stops injected in one run
MaxFaults == 1

\* initializeDatabase: the players table filled from initialPlayers, ids
\* assigned by AUTOINCREMENT in insertion order
InitialPlayerRows ==
    [k \in 1..Len(SeedPlayers) |->
        [id |-> k, name |-> SeedPlayers[k].name, assists |-> SeedPlayers[k].assists,
         team |-> SeedPlayers[k].team, color |-> SeedPlayers[k].color,
         is_braden |-> SeedPlayers[k].is_braden]]

\* WHERE id = ? with a text parameter from the URL: the column's INTEGER
\* affinity converts a parameter that is a well-formed number
SqlIdEquals(colValue, param) == LooseEquals(colValue, param)

\* SELECT ... FROM players WHERE id = ? : the matching row numbers
PlayerRows(rows, id) == {k \in 1..Len(rows) : SqlIdEquals(rows[k].id, id)}

\* the row numbers of the players whose id is the number pid
PlayerRowsOf(rows, pid) == {k \in 1..Len(rows) : rows[k].id = pid}

\* UPDATE players SET assists = ? WHERE id = ?
SetAssists(rows, matching, value) ==
    [k \in 1..Len(rows) |->
        IF k \in matching THEN [rows[k] EXCEPT !.assists = value] ELSE rows[k]]

\* UPDATE players SET assists = assists + ? WHERE id = ?
IncrementAssists(rows, matching, delta) ==
    [k \in 1..Len(rows) |->
        IF k \in matching THEN [rows[k] EXCEPT !.assists = rows[k].assists + delta]
        ELSE rows[k]]

\* UPDATE players SET assists = assists - ? WHERE id = ?
DecrementAssists(rows, matching, delta) ==
    [k \in 1..Len(rows) |->
        IF k \in matching THEN [rows[k] EXCEPT !.assists = rows[k].assists - delta]
        ELSE rows[k]]

\* SELECT * FROM assists WHERE id = ?
LogRows(logs, id) == {r \in logs : SqlIdEquals(r.id, id)}

\* ORDER BY assists DESC, name ASC
OrderedBefore(a, b) ==
    \/ a.assists > b.assists
    \/ (a.assists = b.assists /\ NameLess(a.name, b.name))

\* SELECT * FROM players ORDER BY assists DESC, name ASC
OrderedPlayers(rows) ==
    LET pos(i) == Cardinality({j \in 1..Len(rows) : OrderedBefore(rows[j], rows[i])}) + 1
    IN  [k \in 1..Len(rows) |-> rows[CHOOSE i \in 1..Len(rows) : pos(i) = k]]

NoLog == [id |-> 0, player_id |-> 0, assists_added |-> 0]

\* a connection with no request
IdleRequest ==
    [route |-> "none", pc |-> "idle", id |-> <<>>, player_id |-> 0, amount |-> Missing,
     rowAssists |-> 0, log |-> NoLog, lastID |-> 0, status |-> 0, data |-> <<>>,
     game_date |-> FALSE, previous_assists |-> Missing,
     failedAt |-> "", stoppedAt |-> "", overlapped |-> FALSE]

InFlight(c) == req[c].pc \notin {"idle", "done", "stopped"}

\* the storage as a request finds it
Storage == [assists |-> AssistsOf(dbPlayers), logs |-> dbAssists]

\* a request arrives and opens connection c, the first one not in use
Accept(c, r) ==
    /\ ~InFlight(c)
    /\ \A d \in Conns : d < c => InFlight(d)
    /\ started < MaxSqlRequests
    /\ started' = started + 1
    /\ req' = [d \in Conns |->
                 IF d = c THEN [r EXCEPT !.overlapped = \E e \in Conns \ {c} : InFlight(e)]
                 ELSE IF InFlight(d) THEN [req[d] EXCEPT !.overlapped = TRUE]
                 ELSE req[d]]
    /\ snap' = [snap EXCEPT ![c] = Storage]

\* the request on c ends with a response
Respond(c, status, data) ==
    req' = [req EXCEPT ![c].pc = "done", ![c].status = status, ![c].data = data]

\* a statement's callback gets err: one more storage error
Fault(err) == faults' = IF err THEN faults + 1 ELSE faults

----------------------------------------------------------------------------
(* routes/players.js *)

\* router.get('/')
SqlGetPlayers(c, err) ==
    /\ Accept(c, [IdleRequest EXCEPT !.route = "get-players", !.pc = "done",
                    !.status = IF err THEN 500 ELSE 200,
                    !.failedAt = IF err THEN "all" ELSE "",
                    !.data = IF err THEN <<>> ELSE OrderedPlayers(dbPlayers)])
    /\ err => faults < MaxFaults
    /\ Fault(err)
    /\ UNCHANGED <<dbPlayers, dbAssists, dbSeq>>
    /\ UNCHANGED <<memVars, clientVars>>

\* assists === undefined || assists === null
MissingAssists(body) == ~body.assists.present

\* const assistsAdded = assists - (req.body.previous_assists || 0)
PutAssistsAdded(assists, previous_assists) ==
    assists.val - (IF previous_assists.present /\ previous_assists.val # 0
                   THEN previous_assists.val ELSE 0)

\* router.put('/:id/assists'), up to db.serialize
SqlPutAssistsStart(c, id, body) ==
    /\ Accept(c, [IdleRequest EXCEPT !.route = "put-assists", !.id = id,
                    !.amount = body.assists, !.game_date = body.game_date,
                    !.previous_assists = body.previous_assists,
                    !.pc = IF MissingAssists(body) THEN "done" ELSE "update",
                    !.status = IF MissingAssists(body) THEN 400 ELSE 0])
    /\ UNCHANGED <<dbPlayers, dbAssists, dbSeq, faults>>
    /\ UNCHANGED <<memVars, clientVars>>

\* db.run('UPDATE players SET assists = ? WHERE id = ?', [assists, id])
SqlPutAssistsUpdate(c, err) ==
    /\ req[c].route = "put-assists" /\ req[c].pc = "update"
    /\ err => faults < MaxFaults
    /\ Fault(err)
    /\ LET rows == PlayerRows(dbPlayers, req[c].id) IN
       IF err
       THEN /\ req' = [req EXCEPT ![c].pc = "done", ![c].status = 500, ![c].failedAt = "update"]
            /\ UNCHANGED dbPlayers
       ELSE IF rows = {}
       THEN /\ Respond(c, 404, <<>>)
            /\ UNCHANGED dbPlayers
       ELSE /\ dbPlayers' = SetAssists(dbPlayers, rows, req[c].amount.val)
            /\ req' = [req EXCEPT ![c].pc = IF req[c].game_date THEN "insert" ELSE "get"]
    /\ UNCHANGED <<dbAssists, dbSeq, snap, started>>
    /\ UNCHANGED <<memVars, clientVars>>

\* if (game_date) db.run('INSERT INTO assists ...'): an error is only logged
SqlPutAssistsInsert(c, err) ==
    /\ req[c].route = "put-assists" /\ req[c].pc = "insert"
    /\ err => faults < MaxFaults
    /\ Fault(err)
    /\ IF err
       THEN /\ req' = [req EXCEPT ![c].pc = "get", ![c].failedAt = "insert"]
            /\ UNCHANGED <<dbAssists, dbSeq>>
       ELSE /\ dbSeq' = dbSeq + 1
            /\ dbAssists' = dbAssists \cup
                  {[id |-> dbSeq + 1,
                    player_id |-> ToNumber(req[c].id).val,
                    assists_added |-> PutAssistsAdded(req[c].amount, req[c].previous_assists)]}
            /\ req' = [req EXCEPT ![c].pc = "get", ![c].lastID = dbSeq + 1]
    /\ UNCHANGED <<dbPlayers, snap, started>>
    /\ UNCHANGED <<memVars, clientVars>>

\* db.get('SELECT * FROM players WHERE id = ?') and the response, on either
\* branch
SqlPutAssistsGet(c, err) ==
    /\ req[c].route = "put-assists" /\ req[c].pc = "get"
    /\ err => faults < MaxFaults
    /\ Fault(err)
    /\ LET rows == PlayerRows(dbPlayers, req[c].id) IN
       IF err
       THEN Respond(c, 500, <<>>)
       ELSE Respond(c, 200, dbPlayers[CHOOSE k \in rows : TRUE])
    /\ UNCHANGED <<dbPlayers, dbAssists, dbSeq, snap, started>>
    /\ UNCHANGED <<memVars, clientVars>>

\* assists_to_add === undefined || assists_to_add === null || assists_to_add <= 0
InvalidAssistsToAdd(n) == ~n.present \/ n.val <= 0

\* router.post('/:id/add-assists'), up to db.serialize
SqlAddAssistsStart(c, id, n) ==
    /\ Accept(c, IF InvalidAssistsToAdd(n)
                 THEN [IdleRequest EXCEPT !.route = "add-assists", !.id = id, !.amount = n,
                                          !.pc = "done", !.status = 400]
                 ELSE [IdleRequest EXCEPT !.route = "add-assists", !.id = id, !.amount = n,
                                          !.pc = "select"])
    /\ UNCHANGED <<dbPlayers, dbAssists, dbSeq, faults>>
    /\ UNCHANGED <<memVars, clientVars>>

\* const newAssists = row.assists + assists_to_add
NewAssists(rowAssists, n) == rowAssists + n.val

\* db.get('SELECT assists FROM players WHERE id = ?') and its callback
SqlAddAssistsSelect(c, err) ==
    /\ req[c].route = "add-assists" /\ req[c].pc = "select"
    /\ err => faults < MaxFaults
    /\ Fault(err)
    /\ LET rows == PlayerRows(dbPlayers, req[c].id) IN
       IF err
       THEN req' = [req EXCEPT ![c].pc = "done", ![c].status = 500, ![c].failedAt = "select"]
       ELSE IF rows = {}
       THEN Respond(c, 404, <<>>)
       ELSE req' = [req EXCEPT ![c].pc = "update",
                               ![c].rowAssists = dbPlayers[CHOOSE k \in rows : TRUE].assists]
    /\ UNCHANGED <<dbPlayers, dbAssists, dbSeq, snap, started>>
    /\ UNCHANGED <<memVars, clientVars>>

\* db.run('UPDATE players SET assists = ? WHERE id = ?', [newAssists, id])
SqlAddAssistsUpdate(c, err) ==
    /\ req[c].route = "add-assists" /\ req[c].pc = "update"
    /\ err => faults < MaxFaults
    /\ Fault(err)
    /\ IF err
       THEN /\ req' = [req EXCEPT ![c].pc = "done", ![c].status = 500, ![c].failedAt = "update"]
            /\ UNCHANGED dbPlayers
       ELSE /\ dbPlayers' = SetAssists(dbPlayers, PlayerRows(dbPlayers, req[c].id),
                                       NewAssists(req[c].rowAssists, req[c].amount))
            /\ req' = [req EXCEPT ![c].pc = "insert"]
    /\ UNCHANGED <<dbAssists, dbSeq, snap, started>>
    /\ UNCHANGED <<memVars, clientVars>>

\* db.run('INSERT INTO assists ...'): an error is only logged
SqlAddAssistsInsert(c, err) ==
    /\ req[c].route = "add-assists" /\ req[c].pc = "insert"
    /\ err => faults < MaxFaults
    /\ Fault(err)
    /\ IF err
       THEN /\ req' = [req EXCEPT ![c].pc = "get", ![c].failedAt = "insert"]
            /\ UNCHANGED <<dbAssists, dbSeq>>
       ELSE /\ dbSeq' = dbSeq + 1
            /\ dbAssists' = dbAssists \cup
                  {[id |-> dbSeq + 1,
                    player_id |-> ToNumber(req[c].id).val,
                    assists_added |-> req[c].amount.val]}
            /\ req' = [req EXCEPT ![c].pc = "get", ![c].lastID = dbSeq + 1]
    /\ UNCHANGED <<dbPlayers, snap, started>>
    /\ UNCHANGED <<memVars, clientVars>>

\* db.get('SELECT * FROM players WHERE id = ?') and the response
SqlAddAssistsGet(c, err) ==
    /\ req[c].route = "add-assists" /\ req[c].pc = "get"
    /\ err => faults < MaxFaults
    /\ Fault(err)
    /\ LET rows == PlayerRows(dbPlayers, req[c].id) IN
       IF err
       THEN Respond(c, 500, <<>>)
       ELSE Respond(c, 200, dbPlayers[CHOOSE k \in rows : TRUE])
    /\ UNCHANGED <<dbPlayers, dbAssists, dbSeq, snap, started>>
    /\ UNCHANGED <<memVars, clientVars>>

----------------------------------------------------------------------------
(* routes/assists.js *)

\* !player_id || !game_date || !assists_added, then assists_added <= 0
\* (game_date is always sent)
InvalidAssistLog(pid, n) == pid = 0 \/ ~n.present \/ n.val = 0 \/ n.val <= 0

\* router.post('/'), up to db.serialize
SqlPostAssistStart(c, pid, n) ==
    /\ Accept(c, IF InvalidAssistLog(pid, n)
                 THEN [IdleRequest EXCEPT !.route = "post-assist", !.player_id = pid,
                                          !.amount = n, !.pc = "done", !.status = 400]
                 ELSE [IdleRequest EXCEPT !.route = "post-assist", !.player_id = pid,
                                          !.amount = n, !.pc = "update"])
    /\ UNCHANGED <<dbPlayers, dbAssists, dbSeq, faults>>
    /\ UNCHANGED <<memVars, clientVars>>

\* db.run('UPDATE players SET assists = assists + ? WHERE id = ?')
SqlPostAssistUpdate(c, err) ==
    /\ req[c].route = "post-assist" /\ req[c].pc = "update"
    /\ err => faults < MaxFaults
    /\ Fault(err)
    /\ LET rows == PlayerRowsOf(dbPlayers, req[c].player_id) IN
       IF err
       THEN /\ req' = [req EXCEPT ![c].pc = "done", ![c].status = 500, ![c].failedAt = "update"]
            /\ UNCHANGED dbPlayers
       ELSE IF rows = {}
       THEN /\ Respond(c, 404, <<>>)
            /\ UNCHANGED dbPlayers
       ELSE /\ dbPlayers' = IncrementAssists(dbPlayers, rows, req[c].amount.val)
            /\ req' = [req EXCEPT ![c].pc = "insert"]
    /\ UNCHANGED <<dbAssists, dbSeq, snap, started>>
    /\ UNCHANGED <<memVars, clientVars>>

\* db.run('INSERT INTO assists ...'): an error ends the request with 500
SqlPostAssistInsert(c, err) ==
    /\ req[c].route = "post-assist" /\ req[c].pc = "insert"
    /\ err => faults < MaxFaults
    /\ Fault(err)
    /\ IF err
       THEN /\ req' = [req EXCEPT ![c].pc = "done", ![c].status = 500, ![c].failedAt = "insert"]
            /\ UNCHANGED <<dbAssists, dbSeq>>
       ELSE /\ dbSeq' = dbSeq + 1
            /\ dbAssists' = dbAssists \cup
                  {[id |-> dbSeq + 1,
                    player_id |-> req[c].player_id,
                    assists_added |-> req[c].amount.val]}
            /\ req' = [req EXCEPT ![c].pc = "get", ![c].lastID = dbSeq + 1]
    /\ UNCHANGED <<dbPlayers, snap, started>>
    /\ UNCHANGED <<memVars, clientVars>>

\* db.get('SELECT a.*, ... WHERE a.id = ?', [assistLogId]) and the response
SqlPostAssistGet(c, err) ==
    /\ req[c].route = "post-assist" /\ req[c].pc = "get"
    /\ err => faults < MaxFaults
    /\ Fault(err)
    /\ LET found == {r \in dbAssists : r.id = req[c].lastID} IN
       IF err
       THEN Respond(c, 500, <<>>)
       ELSE Respond(c, 201, IF found = {} THEN <<>> ELSE CHOOSE r \in found : TRUE)
    /\ UNCHANGED <<dbPlayers, dbAssists, dbSeq, snap, started>>
    /\ UNCHANGED <<memVars, clientVars>>

\* SQL NULL, as a JSON null in the response
SqlNull == [present |-> FALSE, val |-> 0]

\* SUM(assists_added) over rows: NULL when there is no row
SqlSum(rows) ==
    LET RECURSIVE Sum(_)
        Sum(rs) == IF rs = {} THEN 0
                   ELSE LET r == CHOOSE x \in rs : TRUE
                        IN  r.assists_added + Sum(rs \ {r})
    IN  IF rows = {} THEN SqlNull ELSE Num(Sum(rows))

\* SELECT COUNT(*), SUM(assists_added), COUNT(DISTINCT player_id) FROM assists
\* (the rows carry no game_date here: MIN and MAX of it are left out)
SqlStats(rows) ==
    [total_logs |-> Cardinality(rows),
     total_assists_added |-> SqlSum(rows),
     unique_players |-> Cardinality({r.player_id : r \in rows})]

\* router.get('/stats/summary')
SqlGetStats(c, err) ==
    /\ Accept(c, [IdleRequest EXCEPT !.route = "get-stats", !.pc = "done",
                    !.status = IF err THEN 500 ELSE 200,
                    !.failedAt = IF err THEN "all" ELSE "",
                    !.data = IF err THEN <<>> ELSE SqlStats(dbAssists)])
    /\ err => faults < MaxFaults
    /\ Fault(err)
    /\ UNCHANGED <<dbPlayers, dbAssists, dbSeq>>
    /\ UNCHANGED <<memVars, clientVars>>

\* router.delete('/:id'), up to db.serialize
SqlDeleteStart(c, id) ==
    /\ Accept(c, [IdleRequest EXCEPT !.route = "delete-assist", !.id = id, !.pc = "select"])
    /\ UNCHANGED <<dbPlayers, dbAssists, dbSeq, faults>>
    /\ UNCHANGED <<memVars, clientVars>>

\* db.get('SELECT * FROM assists WHERE id = ?') and its callback
SqlDeleteSelect(c, err) ==
    /\ req[c].route = "delete-assist" /\ req[c].pc = "select"
    /\ err => faults < MaxFaults
    /\ Fault(err)
    /\ LET rows == LogRows(dbAssists, req[c].id) IN
       IF err
       THEN req' = [req EXCEPT ![c].pc = "done", ![c].status = 500, ![c].failedAt = "select"]
       ELSE IF rows = {}
       THEN Respond(c, 404, <<>>)
       ELSE req' = [req EXCEPT ![c].pc = "update", ![c].log = CHOOSE r \in rows : TRUE]
    /\ UNCHANGED <<dbPlayers, dbAssists, dbSeq, snap, started>>
    /\ UNCHANGED <<memVars, clientVars>>

\* db.run('UPDATE players SET assists = assists - ? WHERE id = ?')
SqlDeleteUpdate(c, err) ==
    /\ req[c].route = "delete-assist" /\ req[c].pc = "update"
    /\ err => faults < MaxFaults
    /\ Fault(err)
    /\ IF err
       THEN /\ req' = [req EXCEPT ![c].pc = "done", ![c].status = 500, ![c].failedAt = "update"]
            /\ UNCHANGED dbPlayers
       ELSE /\ dbPlayers' = DecrementAssists(dbPlayers,
                                PlayerRowsOf(dbPlayers, req[c].log.player_id),
                                req[c].log.assists_added)
            /\ req' = [req EXCEPT ![c].pc = "delete"]
    /\ UNCHANGED <<dbAssists, dbSeq, snap, started>>
    /\ UNCHANGED <<memVars, clientVars>>

\* db.run('DELETE FROM assists WHERE id = ?') and the response
SqlDeleteDelete(c, err) ==
    /\ req[c].route = "delete-assist" /\ req[c].pc = "delete"
    /\ err => faults < MaxFaults
    /\ Fault(err)
    /\ IF err
       THEN /\ req' = [req EXCEPT ![c].pc = "done", ![c].status = 500, ![c].failedAt = "delete"]
            /\ UNCHANGED dbAssists
       ELSE /\ dbAssists' = dbAssists \ LogRows(dbAssists, req[c].id)
            /\ Respond(c, 200, req[c].log)
    /\ UNCHANGED <<dbPlayers, dbSeq, snap, started>>
    /\ UNCHANGED <<memVars, clientVars>>

\* the server process stops: every request in flight is abandoned where it
\* is; each statement that had run was committed on its own
SqlProcessStops ==
    /\ \E c \in Conns : InFlight(c)
    /\ faults < MaxFaults
    /\ faults' = faults + 1
    /\ req' = [c \in Conns |->
                 IF InFlight(c)
                 THEN [req[c] EXCEPT !.pc = "stopped", !.stoppedAt = req[c].pc]
                 ELSE req[c]]
    /\ UNCHANGED <<dbPlayers, dbAssists, dbSeq, snap, started>>
    /\ UNCHANGED <<memVars, clientVars>>

----------------------------------------------------------------------------
(* script.js: the browser client *)

MAX_ERROR_COUNT == 3

\* !BASE_API_URL || window.location.hostname.includes('vercel.app'):
\* BASE_API_URL is null only on vercel.app, so the test is that of the host
NoApi == vercel

\* the demo list of loadDemoData, before its sort (colours left out)
DemoList ==
    << [id |-> 1,  name |-> "Bobby Hurley",    assists |-> 1076, team |-> "Duke",                   isBraden |-> FALSE],
       [id |-> 2,  name |-> "Chris Corchiani", assists |-> 1038, team |-> "NC State",               isBraden |-> FALSE],
       [id |-> 3,  name |-> "Ed Cota",         assists |-> 1030, team |-> "North Carolina",         isBraden |-> FALSE],
       [id |-> 4,  name |-> "Jason Brickman",  assists |-> 1007, team |-> "Long Island University", isBraden |-> FALSE],
       [id |-> 5,  name |-> "Keith Jennings",  assists |-> 983,  team |-> "East Tennessee State",   isBraden |-> FALSE],
       [id |-> 6,  name |-> "Steve Blake",     assists |-> 972,  team |-> "Maryland",               isBraden |-> FALSE],
       [id |-> 7,  name |-> "Sherman Douglas", assists |-> 960,  team |-> "Syracuse",               isBraden |-> FALSE],
       [id |-> 8,  name |-> "Tony Miller",     assists |-> 956,  team |-> "Marquette",              isBraden |-> FALSE],
       [id |-> 9,  name |-> "Aaron Miles",     assists |-> 954,  team |-> "Kansas",                 isBraden |-> FALSE],
       [id |-> 10, name |-> "Greg Anthony",    assists |-> 950,  team |-> "Nevada-Las Vegas",       isBraden |-> FALSE],
       [id |-> 11, name |-> "Braden Smith",    assists |-> 758,  team |-> "Purdue",                 isBraden |-> TRUE] >>

\* the list left in the order it has
Unsorted(arr) == arr

\* players.sort((a, b) => b.assists - a.assists), a stable sort
ClientSorted(arr) ==
    LET pos(i) == Cardinality({j \in 1..Len(arr) :
                      \/ arr[j].assists > arr[i].assists
                      \/ (arr[j].assists = arr[i].assists /\ j < i)}) + 1
    IN  [k \in 1..Len(arr) |-> arr[CHOOSE i \in 1..Len(arr) : pos(i) = k]]

\* the demo list sorted the other way round
DemoPlayersAscending ==
    LET sorted == ClientSorted(DemoList)
    IN  [k \in 1..Len(sorted) |-> sorted[Len(sorted) + 1 - k]]

\* loadDemoData: the value it gives players
DemoPlayers == ClientSorted(DemoList)

\* the mapping that drops the flag: isBraden false for every player
NormalizedUntracked(data) ==
    [k \in 1..Len(data) |->
        [id |-> data[k].id, name |-> data[k].name, team |-> data[k].team,
         assists |-> data[k].assists, isBraden |-> FALSE]]

\* json.data.map(p => ({id, name, team, assists, isBraden: !!p.is_braden, color}))
Normalized(data) ==
    [k \in 1..Len(data) |->
        [id |-> data[k].id, name |-> data[k].name, team |-> data[k].team,
         assists |-> data[k].assists, isBraden |-> data[k].is_braden # 0]]

\* json.data.map(p => `${p.id}-${p.assists}`).join('|'): the string is kept
\* as the list of its (id, assists) pairs
Fingerprint(data) == [k \in 1..Len(data) |-> <<data[k].id, data[k].assists>>]

\* lastKnownState: null, or a fingerprint
NullState == [isNull |-> TRUE, value |-> <<>>]
KnownState(fingerprint) == [isNull |-> FALSE, value |-> fingerprint]

\* the search that finds no tracked player
FindNobody(arr) == 0

\* players.find(player => player.isBraden): its index, 0 when there is none
FindBraden(arr) ==
    LET matches == {k \in 1..Len(arr) : arr[k].isBraden}
    IN  IF matches = {} THEN 0 ELSE CHOOSE k \in matches : \A j \in matches : k <= j

\* updateProgressBar: recordAssists = players[0].assists
RecordAssists(list) == list[1].assists

\* updateProgressBar: Math.min((braden.assists / recordAssists) * 100, 100),
\* for a list with a tracked player.  The number is kept as the fraction
\* num / den with den > 0; a division by zero gives NaN (which Math.min
\* hands on), -Infinity, or Infinity (which Math.min cuts to 100).
ProgressPercentage(list) ==
    LET b == list[FindBraden(list)].assists
        r == RecordAssists(list)
        q == IF r > 0 THEN [kind |-> "number", num |-> b * 100, den |-> r]
                      ELSE [kind |-> "number", num |-> (0 - b) * 100, den |-> 0 - r]
        hundred == [kind |-> "number", num |-> 100, den |-> 1]
    IN  IF r = 0
        THEN IF b = 0 THEN [kind |-> "NaN", num |-> 0, den |-> 1]
             ELSE IF b > 0 THEN hundred
             ELSE [kind |-> "-Infinity", num |-> 0, den |-> 1]
        ELSE IF q.num > 100 * q.den THEN hundred ELSE q

\* updateProgressBar: neededAssists = recordAssists - braden.assists
NeededAssists(list) == RecordAssists(list) - list[FindBraden(list)].assists

\* is the name braden bound where the server branch of addAssists and
\* reduceAssists reads braden.id?  Its only declaration there is the `let`
\* inside the block of the demo branch, so the read throws a ReferenceError.
BradenInScope == FALSE

\* isNaN(assistsToAdd) || assistsToAdd < 1
InvalidInput(n) == n.nan \/ n.val < 1

\* the guard that would let the call through whatever the pointer is
NeverNothingToUndo(id) == FALSE

\* if (!lastAssistLogId) return
NothingToUndo(id) == id = NoId

\* something the client awaits: a fetch (of a function, for a caller) or the
\* retry timer of addAssists
Task(fn, caller, id, n, input) ==
    [fn |-> fn, caller |-> caller, id |-> id, n |-> n, input |-> input]

\* the sequence without its i-th element
Without(seq, i) == [k \in 1..(Len(seq) - 1) |-> IF k < i THEN seq[k] ELSE seq[k + 1]]

\* the test that finds every answer the same as the last
StateNeverChanged(known, currentState) == FALSE

\* if (lastKnownState !== currentState)
StateChanged(known, currentState) == known # currentState

\* a successful refresh that counts as one more error
RefreshedToCounted(data, known, list, errors) ==
    [lastKnownState |-> KnownState(Fingerprint(data)),
     players |-> ClientSorted(Normalized(data)),
     errorCount |-> errors + 1]

\* refreshPlayers after a successful fetch: what it leaves in lastKnownState,
\* players and errorCount
RefreshedTo(data, known, list, errors) ==
    LET currentState == KnownState(Fingerprint(data)) IN
    IF StateChanged(known, currentState)
    THEN [lastKnownState |-> currentState,
          players |-> ClientSorted(Normalized(data)),
          errorCount |-> 0]
    ELSE [lastKnownState |-> known, players |-> list, errorCount |-> errors]

\* refreshPlayers, the catch block: errorCount++, demo data at
\* MAX_ERROR_COUNT and whenever the list is empty
RefreshFailedTo(list, errors) ==
    [players |-> IF errors + 1 >= MAX_ERROR_COUNT \/ Len(list) = 0
                 THEN DemoPlayers ELSE list,
     errorCount |-> errors + 1]

\* DOMContentLoaded: bootstrapUI up to its await of refreshPlayers, and
\* through to the listeners when refreshPlayers returns without a fetch
ClientBootstrap ==
    /\ page = "loaded"
    /\ IF NoApi
       THEN /\ cplayers' = DemoPlayers
            /\ page' = "ready"
            /\ pending' = pending
            /\ event' = "bootstrapUI:demo"
       ELSE /\ cplayers' = cplayers
            /\ page' = "booting"
            /\ pending' = Append(pending, Task("refreshPlayers", "bootstrapUI", 0, 0, <<>>))
            /\ event' = "bootstrapUI:fetch"
    /\ UNCHANGED <<vercel, lastAssistLogId, isMutating, errorCount, lastKnownState,
                   localOps, connFailures, failedRefreshes>>
    /\ UNCHANGED <<memVars, sqlVars>>

\* what the caller of refreshPlayers does when it returns: bootstrapUI
\* attaches the listeners, a mutation runs its finally block
Returned(caller) ==
    /\ page' = IF caller = "bootstrapUI" THEN "ready" ELSE page
    /\ isMutating' = IF caller = "bootstrapUI" THEN isMutating ELSE FALSE

\* the fetch of refreshPlayers settles: the server's list arrives, or the
\* fetch rejects
RefreshSettles(t, rest, ok) ==
    /\ pending' = rest
    /\ Returned(t.caller)
    /\ IF ok
       THEN /\ GetPlayers
            /\ LET r == RefreshedTo(resp'.data, lastKnownState, cplayers, errorCount) IN
               /\ lastKnownState' = r.lastKnownState
               /\ cplayers' = r.players
               /\ errorCount' = r.errorCount
            /\ failedRefreshes' = 0
            /\ connFailures' = connFailures
            /\ event' = "refreshPlayers:ok"
       ELSE /\ LET r == RefreshFailedTo(cplayers, errorCount) IN
               /\ cplayers' = r.players
               /\ errorCount' = r.errorCount
            /\ failedRefreshes' = failedRefreshes + 1
            /\ connFailures' = connFailures + 1
            /\ event' = "refreshPlayers:failed"
            /\ UNCHANGED <<lastKnownState, memVars, sqlVars>>
    /\ UNCHANGED <<vercel, lastAssistLogId, localOps>>

\* forceRefreshPlayers, called by a mutation that succeeded: lastKnownState
\* = null, then refreshPlayers up to its fetch
ForceRefresh(caller, rest) ==
    /\ lastKnownState' = NullState
    /\ IF NoApi
       THEN /\ cplayers' = DemoPlayers
            /\ pending' = rest
            /\ isMutating' = FALSE
       ELSE /\ cplayers' = cplayers
            /\ pending' = Append(rest, Task("refreshPlayers", caller, 0, 0, <<>>))
            /\ isMutating' = isMutating

\* a catch block that also empties the list
MutationFailedDropsList(rest) ==
    /\ errorCount' = errorCount + 1
    /\ isMutating' = FALSE
    /\ pending' = rest
    /\ cplayers' = <<>>
    /\ UNCHANGED <<lastAssistLogId, lastKnownState>>

\* the catch and finally blocks of addAssists and reduceAssists
MutationFailed(rest) ==
    /\ errorCount' = errorCount + 1
    /\ isMutating' = FALSE
    /\ pending' = rest
    /\ UNCHANGED <<cplayers, lastAssistLogId, lastKnownState>>

\* the test that sends the client offline on vercel.app only
OfflineOnVercelOnly == NoApi

\* if (!BASE_API_URL || window.location.hostname.includes('vercel.app') ||
\*     errorCount >= MAX_ERROR_COUNT): the demo branch is the one taken
Offline == NoApi \/ errorCount >= MAX_ERROR_COUNT

\* addAssists, from the call to its first await or its return
AddAssistsRuns(input, rest) ==
    LET assistsToAdd == ParseInt(input)
        braden == FindBraden(cplayers)
    IN
    /\ IF InvalidInput(assistsToAdd)
       THEN /\ event' = "addAssists:invalid"
            /\ pending' = rest
            /\ UNCHANGED <<cplayers, lastAssistLogId, isMutating, errorCount, localOps>>
       ELSE IF Offline
       THEN IF braden = 0
            THEN /\ cplayers' = DemoPlayers
                 /\ pending' = Append(rest, Task("setTimeout", "addAssists", 0, 0, input))
                 /\ event' = "addAssists:retry"
                 /\ UNCHANGED <<lastAssistLogId, isMutating, errorCount, localOps>>
            ELSE /\ localOps < MaxLocalOps
                 /\ localOps' = localOps + 1
                 /\ cplayers' = ClientSorted([cplayers EXCEPT
                                   ![braden].assists = cplayers[braden].assists + assistsToAdd.val])
                 /\ pending' = rest
                 /\ event' = "addAssists:local"
                 /\ UNCHANGED <<lastAssistLogId, isMutating, errorCount>>
       ELSE IF BradenInScope
       THEN /\ Len(rest) < MaxInFlight
            /\ isMutating' = TRUE
            /\ pending' = Append(rest, Task("addAssists", "addAssists",
                                            cplayers[braden].id, assistsToAdd.val, input))
            /\ event' = "addAssists:fetch"
            /\ UNCHANGED <<cplayers, lastAssistLogId, errorCount, localOps>>
       ELSE /\ MutationFailed(rest)
            /\ event' = "addAssists:ReferenceError"
            /\ UNCHANGED localOps
    /\ UNCHANGED <<vercel, page, lastKnownState, connFailures, failedRefreshes>>
    /\ UNCHANGED <<memVars, sqlVars>>

\* the click on #addAssists or Enter in #assistInput, once bootstrapUI has
\* attached the listeners
ClientAddAssists(input) ==
    /\ page = "ready"
    /\ AddAssistsRuns(input, pending)

\* window.addAssists(), which the script exports as it loads: a call made
\* before bootstrapUI has attached the listeners
WindowAddAssists(input) ==
    /\ page # "ready"
    /\ AddAssistsRuns(input, pending)

\* the validation that lets every removal through
RemovesNothingTooMany(assists, assistsToRemove) == FALSE

\* if (braden.assists - assistsToRemove < 0)
RemovesTooMany(assists, assistsToRemove) == assists - assistsToRemove < 0

\* reduceAssists, from the call to its first await or its return
ReduceAssistsRuns(input, rest) ==
    LET assistsToRemove == ParseInt(input)
        braden == FindBraden(cplayers)
    IN
    /\ IF InvalidInput(assistsToRemove)
       THEN /\ event' = "reduceAssists:invalid"
            /\ pending' = rest
            /\ UNCHANGED <<cplayers, lastAssistLogId, isMutating, errorCount, localOps>>
       ELSE IF Offline
       THEN IF braden = 0
            THEN /\ cplayers' = DemoPlayers
                 /\ pending' = Append(rest, Task("setTimeout", "reduceAssists", 0, 0, input))
                 /\ event' = "reduceAssists:retry"
                 /\ UNCHANGED <<lastAssistLogId, isMutating, errorCount, localOps>>
            ELSE IF RemovesTooMany(cplayers[braden].assists, assistsToRemove.val)
            THEN /\ event' = "reduceAssists:refused"
                 /\ pending' = rest
                 /\ UNCHANGED <<cplayers, lastAssistLogId, isMutating, errorCount, localOps>>
            ELSE /\ localOps < MaxLocalOps
                 /\ localOps' = localOps + 1
                 /\ cplayers' = ClientSorted([cplayers EXCEPT
                                   ![braden].assists = cplayers[braden].assists - assistsToRemove.val])
                 /\ pending' = rest
                 /\ event' = "reduceAssists:local"
                 /\ UNCHANGED <<lastAssistLogId, isMutating, errorCount>>
       ELSE IF BradenInScope
       THEN /\ Len(rest) < MaxInFlight
            /\ isMutating' = TRUE
            /\ pending' = Append(rest, Task("reduceAssists", "reduceAssists",
                                            cplayers[braden].id, assistsToRemove.val, input))
            /\ event' = "reduceAssists:fetch"
            /\ UNCHANGED <<cplayers, lastAssistLogId, errorCount, localOps>>
       ELSE /\ MutationFailed(rest)
            /\ event' = "reduceAssists:ReferenceError"
            /\ UNCHANGED localOps
    /\ UNCHANGED <<vercel, page, lastKnownState, connFailures, failedRefreshes>>
    /\ UNCHANGED <<memVars, sqlVars>>

\* the click on #reduceAssists, once bootstrapUI has attached the listeners
ClientReduceAssists(input) ==
    /\ page = "ready"
    /\ ReduceAssistsRuns(input, pending)

\* window.reduceAssists(), called before bootstrapUI has attached the listeners
WindowReduceAssists(input) ==
    /\ page # "ready"
    /\ ReduceAssistsRuns(input, pending)

\* undoLastUpdate, from the call to its await or its return
ClientUndo ==
    /\ page = "ready"
    /\ IF NothingToUndo(lastAssistLogId)
       THEN /\ event' = "undoLastUpdate:nothing"
            /\ UNCHANGED <<isMutating, pending>>
       ELSE /\ Len(pending) < MaxInFlight
            /\ isMutating' = TRUE
            /\ pending' = Append(pending, Task("undoLastUpdate", "undoLastUpdate",
                                               lastAssistLogId, 0, <<>>))
            /\ event' = "undoLastUpdate:fetch"
    /\ UNCHANGED <<vercel, page, cplayers, lastAssistLogId, errorCount, lastKnownState,
                   localOps, connFailures, failedRefreshes>>
    /\ UNCHANGED <<memVars, sqlVars>>

\* the fetch of addAssists or reduceAssists settles: the server handles the
\* request and its response arrives, or the fetch rejects
MutationSettles(t, rest, ok) ==
    /\ IF ok
       THEN /\ IF t.fn = "addAssists"
               THEN AddAssists(IdString(t.id), Num(t.n))
               ELSE ReduceAssists(IdString(t.id), Num(t.n))
            /\ connFailures' = connFailures
            /\ IF resp'.status = 200
               THEN /\ lastAssistLogId' = resp'.assistLogId
                    /\ ForceRefresh(t.fn, rest)
                    /\ errorCount' = errorCount
                    /\ event' = "mutation:ok"
               ELSE /\ MutationFailed(rest)
                    /\ event' = "mutation:rejected"
       ELSE /\ MutationFailed(rest)
            /\ connFailures' = connFailures + 1
            /\ event' = "mutation:failed"
            /\ UNCHANGED <<memVars, sqlVars>>
    /\ UNCHANGED <<vercel, page, localOps, failedRefreshes>>

\* the fetch of undoLastUpdate settles; its catch block leaves errorCount alone
UndoSettles(t, rest, ok) ==
    /\ IF ok
       THEN /\ DeleteAssist(IdString(t.id))
            /\ connFailures' = connFailures
            /\ IF resp'.status = 200
               THEN /\ lastAssistLogId' = NoId
                    /\ ForceRefresh(t.fn, rest)
                    /\ event' = "undoLastUpdate:ok"
               ELSE /\ isMutating' = FALSE
                    /\ pending' = rest
                    /\ event' = "undoLastUpdate:rejected"
                    /\ UNCHANGED <<cplayers, lastAssistLogId, lastKnownState>>
       ELSE /\ isMutating' = FALSE
            /\ pending' = rest
            /\ connFailures' = connFailures + 1
            /\ event' = "undoLastUpdate:failed"
            /\ UNCHANGED <<cplayers, lastAssistLogId, lastKnownState>>
            /\ UNCHANGED <<memVars, sqlVars>>
    /\ UNCHANGED <<vercel, page, errorCount, localOps, failedRefreshes>>

\* something the client awaits settles and the function awaiting it runs on,
\* to its next await or to its end
ClientResumes(i, ok) ==
    /\ i \in 1..Len(pending)
    /\ LET t == pending[i]
           rest == Without(pending, i)
       IN  CASE t.fn = "refreshPlayers" -> RefreshSettles(t, rest, ok)
             [] t.fn \in {"addAssists", "reduceAssists"} -> MutationSettles(t, rest, ok)
             [] t.fn = "undoLastUpdate" -> UndoSettles(t, rest, ok)
             [] t.fn = "setTimeout" ->
                  /\ ok
                  /\ IF t.caller = "addAssists"
                     THEN AddAssistsRuns(t.input, rest)
                     ELSE ReduceAssistsRuns(t.input, rest)

\* what the user has typed into #assistInput: "318", "0", "", "318x", "1076"
ClientInputs ==
    {<<51, 49, 56>>, <<48>>, <<>>, <<51, 49, 56, 120>>, <<49, 48, 55, 54>>}

\* a request of another client reaches the server
OtherClient ==
    /\ AddAssists(IdString(11), Num(12))
    /\ UNCHANGED clientVars

----------------------------------------------------------------------------

InitMem ==
    /\ players = SeedPlayers
    /\ assistHistory = <<>>
    /\ clock = 0
    /\ resp = Response("none", 0, NoError, NoId, <<>>)
    /\ before = [assists |-> AssistsOf(SeedPlayers), assistHistory |-> <<>>]
    /\ issued = <<>>
    /\ undone = {}

InitSql ==
    /\ dbPlayers = InitialPlayerRows
    /\ dbAssists = {}
    /\ dbSeq = 0
    /\ req = [c \in Conns |-> IdleRequest]
    /\ snap = [c \in Conns |-> [assists |-> AssistsOf(InitialPlayerRows), logs |-> {}]]
    /\ started = 0
    /\ faults = 0

\* the log row of an earlier add-assists of 5 for player 11
EarlierLog == [id |-> 1, player_id |-> 11, assists_added |-> 5]

\* the database file as a server process finds it when an earlier process
\* has served POST /api/players/11/add-assists {assists_to_add: 5}
InitSqlLogged ==
    /\ dbPlayers = SetAssists(InitialPlayerRows, PlayerRowsOf(InitialPlayerRows, 11),
                              InitialPlayerRows[11].assists + EarlierLog.assists_added)
    /\ dbAssists = {EarlierLog}
    /\ dbSeq = 1
    /\ req = [c \in Conns |-> IdleRequest]
    /\ snap = [c \in Conns |-> [assists |-> AssistsOf(dbPlayers), logs |-> dbAssists]]
    /\ started = 0
    /\ faults = 0

\* the page as the script leaves it when it has loaded, on host (vercel.app
\* or another)
InitClient(host) ==
    /\ vercel = host
    /\ page = "loaded"
    /\ cplayers = <<>>
    /\ lastAssistLogId = NoId
    /\ isMutating = FALSE
    /\ errorCount = 0
    /\ lastKnownState = NullState
    /\ pending = <<>>
    /\ localOps = 0
    /\ connFailures = 0
    /\ failedRefreshes = 0
    /\ event = "loaded"

Init == InitMem /\ InitSql /\ InitClient(FALSE)

Next ==
    \/ GetPlayers /\ UNCHANGED clientVars
    \/ GetRecentAssists /\ UNCHANGED clientVars
    \/ \E id \in ReqPlayerIds, n \in AddAmounts : AddAssists(id, n) /\ UNCHANGED clientVars
    \/ \E id \in ReqPlayerIds, n \in ReduceAmounts : ReduceAssists(id, n) /\ UNCHANGED clientVars
    \/ \E id \in ReqPlayerIds :
          /\ FindPlayer(players, id) # 0
          /\ ReduceAssists(id, Num(players[FindPlayer(players, id)].assists))
          /\ UNCHANGED clientVars
    \/ \E id \in ReqLogIds : DeleteAssist(id) /\ UNCHANGED clientVars

Spec == Init /\ [][Next]_vars

\* the SQLite add-assists requests: :id and assists_to_add
SqlAddRequests ==
    {<<IdString(11), Missing>>, <<IdString(11), Num(0)>>, <<IdString(11), Num(5)>>,
     <<IdString(12), Num(5)>>}

\* the POST /api/assists bodies: player_id (0: absent) and assists_added
SqlPostBodies ==
    {<<0, Num(5)>>, <<11, Missing>>, <<11, Num(0)>>, <<11, Num(5)>>, <<12, Num(5)>>}

\* the PUT /api/players/:id/assists requests: :id and body
SqlPutRequests ==
    {<<IdString(11), [assists |-> Missing, game_date |-> FALSE, previous_assists |-> Missing]>>,
     <<IdString(11), [assists |-> Num(800), game_date |-> FALSE, previous_assists |-> Missing]>>,
     <<IdString(11), [assists |-> Num(800), game_date |-> TRUE, previous_assists |-> Missing]>>,
     <<IdString(11), [assists |-> Num(800), game_date |-> TRUE, previous_assists |-> Num(758)]>>,
     <<IdString(12), [assists |-> Num(800), game_date |-> FALSE, previous_assists |-> Missing]>>}

\* the :id values of the SQLite DELETE /api/assists/:id requests
SqlLogIds == {IdString(n) : n \in 1..2}

NextSql ==
    \/ \E c \in Conns, err \in BOOLEAN : SqlGetPlayers(c, err)
    \/ \E c \in Conns, r \in SqlAddRequests : SqlAddAssistsStart(c, r[1], r[2])
    \/ \E c \in Conns, err \in BOOLEAN : SqlAddAssistsSelect(c, err)
    \/ \E c \in Conns, err \in BOOLEAN : SqlAddAssistsUpdate(c, err)
    \/ \E c \in Conns, err \in BOOLEAN : SqlAddAssistsInsert(c, err)
    \/ \E c \in Conns, err \in BOOLEAN : SqlAddAssistsGet(c, err)
    \/ \E c \in Conns, r \in SqlPutRequests : SqlPutAssistsStart(c, r[1], r[2])
    \/ \E c \in Conns, err \in BOOLEAN : SqlPutAssistsUpdate(c, err)
    \/ \E c \in Conns, err \in BOOLEAN : SqlPutAssistsInsert(c, err)
    \/ \E c \in Conns, err \in BOOLEAN : SqlPutAssistsGet(c, err)
    \/ \E c \in Conns, b \in SqlPostBodies : SqlPostAssistStart(c, b[1], b[2])
    \/ \E c \in Conns, err \in BOOLEAN : SqlPostAssistUpdate(c, err)
    \/ \E c \in Conns, err \in BOOLEAN : SqlPostAssistInsert(c, err)
    \/ \E c \in Conns, err \in BOOLEAN : SqlPostAssistGet(c, err)
    \/ \E c \in Conns, err \in BOOLEAN : SqlGetStats(c, err)
    \/ \E c \in Conns, id \in SqlLogIds : SqlDeleteStart(c, id)
    \/ \E c \in Conns, err \in BOOLEAN : SqlDeleteSelect(c, err)
    \/ \E c \in Conns, err \in BOOLEAN : SqlDeleteUpdate(c, err)
    \/ \E c \in Conns, err \in BOOLEAN : SqlDeleteDelete(c, err)
    \/ SqlProcessStops

\* the SQLite routes start on the database the init script made, or on one
\* that already holds a log row
InitStore == InitMem /\ (InitSql \/ InitSqlLogged) /\ InitClient(FALSE)

SpecSql == InitStore /\ [][NextSql]_vars

InitPage == InitMem /\ InitSql /\ \E host \in BOOLEAN : InitClient(host)

NextClient ==
    \/ ClientBootstrap
    \/ \E input \in ClientInputs : ClientAddAssists(input)
    \/ \E input \in ClientInputs : ClientReduceAssists(input)
    \/ \E input \in ClientInputs : WindowAddAssists(input)
    \/ \E input \in ClientInputs : WindowReduceAssists(input)
    \/ ClientUndo
    \/ \E i \in 1..MaxInFlight, ok \in BOOLEAN : ClientResumes(i, ok)
    \/ OtherClient

SpecClient == InitPage /\ [][NextClient]_vars

----------------------------------------------------------------------------
(* The in-memory server: properties *)

RECURSIVE SumAdded(_, _)
\* the sum of assistsAdded over the entries of history for player pid
SumAdded(history, pid) ==
    IF history = <<>> THEN 0
    ELSE (IF Head(history).playerId = pid THEN Head(history).assistsAdded ELSE 0)
         + SumAdded(Tail(history), pid)

\* C1: every player's assists equals its seed value plus the sum of
\* assistsAdded over the entries for that player still in assistHistory.
C1_Reconciled ==
    /\ Len(players) = Len(SeedPlayers)
    /\ \A k \in 1..Len(players) :
          players[k].assists =
              SeedPlayers[k].assists + SumAdded(assistHistory, players[k].id)

\* an undo has succeeded and left other entries, of both signs, in the history
C1_Witness ==
    /\ resp.op = "delete" /\ resp.status = 200
    /\ Len(assistHistory) >= 1
    /\ \E k \in 1..Len(players) : players[k].assists # SeedPlayers[k].assists

\* C2 (as claimed): every player's assists is >= 0 in every reachable state.
C2_NonNegative == \A k \in 1..Len(players) : players[k].assists >= 0

\* C3: a successful add-assists or reduce-assists followed immediately by
\* DELETE /api/assists/<returned assistLogId> succeeds and restores every
\* player's assists and assistHistory to what they were before the apply.
C3_RoundTrip ==
    [][ ( /\ resp.op \in {"add", "reduce"}
          /\ resp.status = 200
          /\ DeleteAssist(IdString(resp.assistLogId)) )
        => ( /\ resp'.status = 200
             /\ AssistsOf(players') = before.assists
             /\ assistHistory' = before.assistHistory ) ]_vars

\* an undo has just put back the state from before the last apply, with an
\* older entry still in the history
C3_Witness ==
    /\ resp.op = "delete" /\ resp.status = 200
    /\ clock >= 2
    /\ Len(assistHistory) >= 1
    /\ AssistsOf(players) = before.assists
    /\ assistHistory = before.assistHistory

\* the numeric amounts a reduce-assists request for player `player` carries
ReduceValues(player) ==
    {n.val : n \in {m \in ReduceAmounts : m.present}} \cup {player.assists}

\* C4: reduce-assists with amount d on an existing player is rejected with
\* 400 and no change whenever d > player.assists, and succeeds, lowering the
\* total by d, whenever 1 <= d <= player.assists.
C4_ReduceGuard ==
    [][ resp'.op = "reduce" =>
        \A id \in {i \in ReqPlayerIds : FindPlayer(players, i) # 0} :
          LET k == FindPlayer(players, id) IN
          \A d \in ReduceValues(players[k]) :
            ReduceAssists(id, Num(d))
            => /\ d > players[k].assists
                   => /\ resp'.status = 400
                      /\ UNCHANGED <<players, assistHistory>>
               /\ (1 <= d /\ d <= players[k].assists)
                   => /\ resp'.status = 200
                      /\ players'[k].assists = players[k].assists - d
                      /\ Len(assistHistory') = Len(assistHistory) + 1 ]_vars

\* a reduction beyond the total has just been refused for a player that an
\* earlier reduction brought to exactly 0
C4_Witness ==
    /\ resp.op = "reduce" /\ resp.status = 400 /\ resp.error = "Invalid operation"
    /\ \E k \in 1..Len(players) : players[k].assists = 0
    /\ \E j \in 1..Len(assistHistory) :
          assistHistory[j].assistsAdded = 0 - assistHistory[j].previousAssists

\* C5 (as claimed): once DELETE i has removed the entry whose apply returned
\* i, a later DELETE i with no apply in between returns 404 and changes
\* neither the players nor assistHistory.
C5_DoubleUndoRejected ==
    [][ \A i \in undone :
          DeleteAssist(IdString(i))
          => (resp'.status = 404 /\ UNCHANGED <<players, assistHistory>>) ]_vars

\* C6 (as claimed): for an entry e still in the history whose apply returned
\* id i, DELETE i removes exactly e and changes only e's player's assists,
\* by -e.assistsAdded.
C6_IdDesignatesEntry ==
    [][ \A k \in 1..Len(assistHistory) :
          LET e == assistHistory[k]
              j == FindPlayerById(players, e.playerId)
          IN  DeleteAssist(IdString(issued[e.timestamp]))
              => /\ assistHistory' = Splice(assistHistory, k - 1)
                 /\ players' = [players EXCEPT
                                  ![j].assists = players[j].assists - e.assistsAdded] ]_vars

\* C7 (as claimed): a successful apply returns an assistLogId strictly
\* greater than the one every earlier successful apply returned.
C7_IdsIncrease ==
    [][ clock' > clock
        => \A t \in 1..clock : issued'[clock'] > issued[t] ]_vars

\* is the list ordered by assists descending, ties by name ascending?
Ranked(list) ==
    \A i \in 1..Len(list), j \in 1..Len(list) :
        i < j => \/ list[i].assists > list[j].assists
                 \/ /\ list[i].assists = list[j].assists
                    /\ NameLess(list[i].name, list[j].name)

\* C8 (as claimed): GET /api/players returns the players ordered by assists
\* descending with ties broken by name ascending.
C8_ListRanked == resp.op = "list" => Ranked(resp.data)

\* does a player with the id written as the string id exist?
PlayerExists(id) == \E k \in 1..Len(players) : IdString(players[k].id) = id

\* is the amount missing, zero or negative?
NotPositive(n) == ~n.present \/ n.val <= 0

\* C20: add-assists and reduce-assists answer 404 for a player id that does
\* not exist and 400 for a missing, zero or negative amount on an existing
\* player, and every rejected add, reduce or undo request leaves the players
\* and assistHistory unchanged.
C20_RejectedUnchanged ==
    [][ /\ resp'.op = "add"
            => \A id \in ReqPlayerIds, n \in AddAmounts :
                  AddAssists(id, n)
                  => /\ ~PlayerExists(id) => resp'.status = 404
                     /\ (PlayerExists(id) /\ NotPositive(n)) => resp'.status = 400
                     /\ resp'.status # 200 => UNCHANGED <<players, assistHistory>>
        /\ resp'.op = "reduce"
            => \A id \in ReqPlayerIds, n \in ReduceAmounts :
                  ReduceAssists(id, n)
                  => /\ ~PlayerExists(id) => resp'.status = 404
                     /\ (PlayerExists(id) /\ NotPositive(n)) => resp'.status = 400
                     /\ resp'.status # 200 => UNCHANGED <<players, assistHistory>>
        /\ resp'.op = "delete"
            => \A id \in ReqLogIds :
                  DeleteAssist(id)
                  => (resp'.status # 200 => UNCHANGED <<players, assistHistory>>) ]_vars

\* each kind of rejection has happened with entries in the history: the last
\* request, a reduce with an invalid amount, was refused with 400
C20_Witness ==
    /\ resp.op = "reduce" /\ resp.status = 400 /\ resp.error = "Invalid assists value"
    /\ Len(assistHistory) = MaxApplies
    /\ \E k \in 1..Len(players) : players[k].assists # SeedPlayers[k].assists

\* a player without its assists
Identity(p) == [id |-> p.id, name |-> p.name, team |-> p.team, color |-> p.color,
                is_braden |-> p.is_braden]

\* C21: the players stay the 11 seeded ones with their id, name, team, color
\* and tracked flag, and a successful add-assists, reduce-assists or DELETE
\* leaves every player but the one it targets (the player of the :id, the
\* player of the entry removed) exactly as it was.
C21_OnlyTargetAssists ==
    [][ /\ Len(players') = Len(SeedPlayers)
        /\ \A k \in 1..Len(SeedPlayers) : Identity(players'[k]) = Identity(SeedPlayers[k])
        /\ (resp'.op = "add" /\ resp'.status = 200)
            => \A id \in ReqPlayerIds, n \in AddAmounts :
                  AddAssists(id, n)
                  => \A k \in 1..Len(players) :
                        IdString(players[k].id) # id => players'[k] = players[k]
        /\ (resp'.op = "reduce" /\ resp'.status = 200)
            => \A id \in ReqPlayerIds :
                  (\E n \in ReduceAmounts \cup {Num(p.assists) : p \in {players[j] : j \in 1..Len(players)}} :
                      ReduceAssists(id, n))
                  => \A k \in 1..Len(players) :
                        IdString(players[k].id) # id => players'[k] = players[k]
        /\ (resp'.op = "delete" /\ resp'.status = 200)
            => \A id \in ReqLogIds :
                  DeleteAssist(id)
                  => \A k \in 1..Len(players) :
                        players[k].id # assistHistory[ParseInt(id).val].playerId
                        => players'[k] = players[k] ]_vars

\* an undo has just lowered player 7 only, while player 11 keeps the assists
\* an earlier apply gave it
C21_Witness ==
    /\ resp.op = "delete" /\ resp.status = 200
    /\ resp.data.playerId = 7
    /\ players[7].assists = SeedPlayers[7].assists
    /\ players[11].assists # SeedPlayers[11].assists

\* C23: assistHistory changes in two ways only: a successful add-assists or
\* reduce-assists puts one new entry at its end, and a successful DELETE
\* takes out one entry, the one whose assistsAdded it takes off that entry's
\* player; every other entry stays, unchanged and in the same order.
C23_AppendOnly ==
    [][ \/ assistHistory' = assistHistory
        \/ /\ resp'.op \in {"add", "reduce"} /\ resp'.status = 200
           /\ Len(assistHistory') = Len(assistHistory) + 1
           /\ \A k \in 1..Len(assistHistory) : assistHistory'[k] = assistHistory[k]
           /\ \A k \in 1..Len(assistHistory) :
                 assistHistory[k].timestamp < assistHistory'[Len(assistHistory')].timestamp
        \/ /\ resp'.op = "delete" /\ resp'.status = 200
           /\ \E i \in 1..Len(assistHistory) :
                 /\ assistHistory' = [k \in 1..(Len(assistHistory) - 1) |->
                                        IF k < i THEN assistHistory[k] ELSE assistHistory[k + 1]]
                 /\ \A k \in 1..Len(players) :
                       players'[k].assists =
                           IF players[k].id = assistHistory[i].playerId
                           THEN players[k].assists - assistHistory[i].assistsAdded
                           ELSE players[k].assists ]_vars

\* an undo has taken the older of two entries out and the later one remains
C23_Witness ==
    /\ resp.op = "delete" /\ resp.status = 200
    /\ Len(assistHistory) = 1
    /\ assistHistory[1].timestamp = 2

\* C24: GET /api/players leaves the players array, contents and order, and
\* assistHistory as they are, and the list it returns holds exactly the
\* players as they are at the time of the call.
C24_PureRead ==
    [][ resp'.op = "list"
        => /\ players' = players
           /\ assistHistory' = assistHistory
           /\ Len(resp'.data) = Len(players)
           /\ \A k \in 1..Len(players) :
                 Cardinality({j \in 1..Len(resp'.data) : resp'.data[j] = players[k]}) = 1 ]_vars

\* the list has been returned in an order that is not the array's, after two
\* applies, and the array is still in id order
C24_Witness ==
    /\ resp.op = "list"
    /\ clock = MaxApplies
    /\ resp.data # players
    /\ \A k \in 1..Len(players) : players[k].id = k

\* the number of entries GET /api/assists/recent is to return at most
RecentLimit == 10

\* the last entries of history, at most limit of them, newest first
NewestFirst(history, limit) ==
    [k \in 1..(IF Len(history) < limit THEN Len(history) ELSE limit) |->
        history[Len(history) + 1 - k]]

\* C25 (as claimed): GET /api/assists/recent of the in-memory server returns
\* the entries created last, up to 10 of them, newest first: all of them when
\* there are fewer than 10.
C25_RecentEntries ==
    resp.op = "recent" => resp.data = NewestFirst(assistHistory, RecentLimit)

----------------------------------------------------------------------------
(* The SQLite routes: properties *)

\* the sum of assists_added over the log rows of player pid
SumLogged(logs, pid) ==
    LET mine == {r \in logs : r.player_id = pid}
        RECURSIVE Sum(_)
        Sum(rs) == IF rs = {} THEN 0
                   ELSE LET r == CHOOSE x \in rs : TRUE
                        IN  r.assists_added + Sum(rs \ {r})
    IN  Sum(mine)

\* C9 (as claimed): when the second storage step of add-assists, POST
\* /api/assists or DELETE /api/assists/:id fails, or the process stops between
\* the two steps, the players' assists and the assists table are as the
\* request found them (for a request no other request overlapped).
C9_Atomic ==
    \A c \in Conns :
        ( /\ req[c].route \in {"add-assists", "post-assist", "delete-assist"}
          /\ ~req[c].overlapped
          /\ \/ req[c].failedAt \in {"insert", "delete"}
             \/ req[c].stoppedAt \in {"insert", "delete"} )
        => Storage = snap[c]

\* C10 (as claimed): with no storage error, two overlapping add-assists
\* requests for the same player that both report success leave the player's
\* assists equal to the seed value plus the sum of its log rows, both amounts
\* included.
C10_NoLostUpdate ==
    ( /\ faults = 0
      /\ \A c \in Conns :
            /\ req[c].route = "add-assists"
            /\ req[c].pc = "done" /\ req[c].status = 200
            /\ req[c].overlapped
      /\ req[1].id = req[2].id )
    => \A k \in PlayerRows(dbPlayers, req[1].id) :
          dbPlayers[k].assists =
              InitialPlayerRows[k].assists + SumLogged(dbAssists, dbPlayers[k].id)

\* C11 (as claimed): when two DELETE /api/assists/:id requests for the same
\* id overlap, with no storage error, the player's assists goes down by the
\* logged amount at most once and at most one of the two answers success, the
\* other one not-found.
C11_UndoAtMostOnce ==
    ( /\ faults = 0
      /\ \A c \in Conns :
            /\ req[c].route = "delete-assist"
            /\ req[c].pc = "done"
            /\ req[c].overlapped
      /\ req[1].id = req[2].id )
    => /\ ~(req[1].status = 200 /\ req[2].status = 200)
       /\ \A c \in Conns :
             req[c].status = 200
             => \A k \in PlayerRowsOf(dbPlayers, req[c].log.player_id) :
                   dbPlayers[k].assists >= snap[1].assists[k] - req[c].log.assists_added

\* C12 (as claimed): with no storage error, a read request that overlaps an
\* apply or an undo (the only two requests made so far) finds every player's
\* assists changed, since that request began, by exactly the change of the
\* sum of the player's log rows: never the counter of an apply whose log row
\* is still missing, nor that of an undo whose log row is still present.
C12_NoTornRead ==
    \A c \in Conns, d \in Conns :
        ( /\ c # d
          /\ faults = 0
          /\ started = 2
          /\ req[c].route = "get-players" /\ req[c].status = 200
          /\ req[c].overlapped
          /\ req[d].route \in {"add-assists", "post-assist", "delete-assist"} )
        => \A k \in 1..Len(dbPlayers) :
              snap[c].assists[k] - snap[d].assists[k] =
                  SumLogged(snap[c].logs, dbPlayers[k].id)
                  - SumLogged(snap[d].logs, dbPlayers[k].id)

\* C13 (as claimed): with no storage error, after any sequence of requests
\* executed one at a time, PUT /api/players/:id/assists included, every
\* player's assists equals its seed value plus the sum of its log rows.
C13_PutReconciled ==
    ( /\ faults = 0
      /\ req[2].pc = "idle"
      /\ ~InFlight(1) )
    => \A k \in 1..Len(dbPlayers) :
          dbPlayers[k].assists =
              InitialPlayerRows[k].assists + SumLogged(dbAssists, dbPlayers[k].id)

----------------------------------------------------------------------------
(* The client: properties *)

\* C14 (as claimed): on the refresh-failure path the client replaces its
\* list with the demo data only after three consecutive failed refreshes;
\* after the first and the second it keeps the list it has.
C14_DemoAfterThreeFailures ==
    [][ ( /\ failedRefreshes' = failedRefreshes + 1
          /\ failedRefreshes' < MAX_ERROR_COUNT )
        => cplayers' = cplayers ]_vars

\* C15 (as claimed): with an API configured and as long as no fetch has
\* failed for lack of a connection, addAssists and reduceAssists never change
\* the list locally, in demo mode, whatever other errors there have been.
C15_OnlyConnectivityGoesOffline ==
    [][ (~NoApi /\ connFailures = 0) => localOps' = localOps ]_vars

\* C17 (as claimed): with an API configured and errorCount < 3, addAssists
\* with a valid amount n >= 1 sends POST /players/{tracked id}/add-assists
\* with assists_to_add = n, and when the server answers success
\* lastAssistLogId is the assistLogId it returned.
C17_AddSendsPost ==
    [][ /\ \A input \in ClientInputs :
              ( /\ ~NoApi
                /\ errorCount < MAX_ERROR_COUNT
                /\ ~ParseInt(input).nan /\ ParseInt(input).val >= 1
                /\ ClientAddAssists(input) )
              => \E i \in 1..Len(pending') :
                    /\ pending'[i].fn = "addAssists"
                    /\ pending'[i].id = cplayers[FindBraden(cplayers)].id
                    /\ pending'[i].n = ParseInt(input).val
        /\ (event' = "mutation:ok" /\ pending' # pending)
              => lastAssistLogId' = resp'.assistLogId ]_vars

\* C18: undoLastUpdate with lastAssistLogId = null sends no request and
\* changes nothing of the client's or the server's state, and an undo the
\* server has carried out leaves lastAssistLogId = null.
C18_UndoWithoutPointer ==
    [][ /\ (lastAssistLogId = NoId /\ ClientUndo)
              => UNCHANGED <<page, cplayers, lastAssistLogId, isMutating, errorCount,
                             lastKnownState, pending, localOps, memVars>>
        /\ (event' = "undoLastUpdate:ok" /\ pending' # pending)
              => lastAssistLogId' = NoId ]_vars

\* undoLastUpdate has just returned at its guard, on a page that shows the
\* server's list and has had a mutation fail
C18_Witness ==
    /\ event = "undoLastUpdate:nothing"
    /\ lastAssistLogId = NoId
    /\ ~NoApi /\ ~lastKnownState.isNull
    /\ errorCount > 0
    /\ pending = <<>>

\* C22: exactly one player of the server has is_braden set, and exactly one
\* player of the client's list has isBraden set once the list has been
\* filled (by a refresh from the server, by loadDemoData, and through the
\* local changes of demo mode).
C22_OneTracked ==
    /\ Cardinality({k \in 1..Len(players) : players[k].is_braden # 0}) = 1
    /\ Len(cplayers) > 0
        => Cardinality({k \in 1..Len(cplayers) : cplayers[k].isBraden}) = 1

\* the client has changed, locally, a list it got from the server
C22_Witness ==
    /\ event \in {"addAssists:local", "reduceAssists:local"}
    /\ ~lastKnownState.isNull
    /\ localOps = MaxLocalOps
    /\ Len(cplayers) = Len(players)

\* C26 (as claimed): GET /api/assists/stats/summary answers with total_logs
\* the number of log rows, total_assists_added the sum of their assists_added
\* (0 when there are none) and unique_players the number of distinct
\* player_id values, as the table is at that moment, and changes no state.
C26_StatsSummary ==
    [][ \A c \in Conns :
          ( /\ started' > started
            /\ ~InFlight(c) /\ \A d \in Conns : d < c => InFlight(d)
            /\ req'[c].route = "get-stats"
            /\ req'[c].status = 200 )
          => /\ UNCHANGED <<dbPlayers, dbAssists, dbSeq>>
             /\ req'[c].data.total_logs = Cardinality(dbAssists)
             /\ req'[c].data.total_assists_added =
                    Num(SumLogged(dbAssists, 11) + SumLogged(dbAssists, 12))
             /\ req'[c].data.unique_players =
                    Cardinality({pid \in {11, 12} : \E r \in dbAssists : r.player_id = pid}) ]_vars

\* the progress indicator of the list the client holds is computed: the list
\* is not empty and has a tracked player
ProgressComputed == Len(cplayers) > 0 /\ FindBraden(cplayers) # 0

RefreshSucceeds ==
    /\ event' = "refreshPlayers:ok"
    /\ Len(pending') < Len(pending)

\* the (id, assists) pairs of a list
IdAssists(list) == {<<list[k].id, list[k].assists>> : k \in 1..Len(list)}

\* C28: after every refreshPlayers that completes with a successful server
\* response the client's list holds exactly the server's players with the
\* same id -> assists values; the list is rewritten only when the fingerprint
\* of the answer differs from lastKnownState, and is left untouched when it
\* is equal.
C28_CacheMatchesServer ==
    [][ RefreshSucceeds =>
          LET currentState == KnownState(Fingerprint(resp'.data)) IN
          /\ Len(cplayers') = Len(players')
          /\ IdAssists(cplayers') = IdAssists(players')
          /\ lastKnownState' = currentState
          /\ (lastKnownState = currentState => cplayers' = cplayers)
          /\ (cplayers' # cplayers => lastKnownState # currentState) ]_vars

\* a refresh has just filled the empty list with the server's players, one of
\* them changed by another client
C28_Witness ==
    /\ event = "refreshPlayers:ok"
    /\ Len(cplayers) = Len(players)
    /\ IdAssists(cplayers) = IdAssists(players)
    /\ \E k \in 1..Len(cplayers) : cplayers[k].id = 11 /\ cplayers[k].assists = 770

\* the steps in which something the client tried has failed
FailureEvents ==
    {"refreshPlayers:failed", "addAssists:ReferenceError", "reduceAssists:ReferenceError",
     "mutation:rejected", "mutation:failed"}

\* C29: every refreshPlayers that completes with a successful server response
\* leaves errorCount = 0, and errorCount rises only by one and only in a step
\* that failed, so that it counts failures since the last successful refresh.
C29_SuccessResetsErrors ==
    [][ /\ RefreshSucceeds => errorCount' = 0
        /\ errorCount' > errorCount =>
              /\ errorCount' = errorCount + 1
              /\ event' \in FailureEvents ]_vars

\* the refresh of bootstrapUI has succeeded and left no error counted
C29_Witness ==
    /\ event = "refreshPlayers:ok"
    /\ ~lastKnownState.isNull
    /\ page = "ready"
    /\ errorCount = 0

\* the steps in which addAssists, reduceAssists or undoLastUpdate has failed
MutationFailureEvents ==
    {"addAssists:ReferenceError", "reduceAssists:ReferenceError",
     "mutation:rejected", "mutation:failed",
     "undoLastUpdate:rejected", "undoLastUpdate:failed"}

\* C30: a client mutation that fails (a response that is not OK, or an error
\* thrown in addAssists, reduceAssists or undoLastUpdate) leaves the client's
\* players list and the undo pointer lastAssistLogId as they were.
C30_FailedMutationKeepsState ==
    [][ (event' \in MutationFailureEvents /\ (errorCount' # errorCount \/ pending' # pending))
          => /\ cplayers' = cplayers
             /\ lastAssistLogId' = lastAssistLogId ]_vars

\* addAssists has thrown with the server's list on the page
C30_Witness ==
    /\ event = "addAssists:ReferenceError"
    /\ errorCount = 1
    /\ Len(cplayers) = 11
    /\ lastAssistLogId = NoId

\* C31: in demo or offline mode the tracked player's assists in the client's
\* list are never negative: a local reduce by d is applied, as a subtraction
\* of d, only when d <= the current assists, and otherwise leaves the list
\* as it was.
C31_LocalReduceGuard ==
    [][ /\ (Offline' /\ FindBraden(cplayers') # 0)
              => cplayers'[FindBraden(cplayers')].assists >= 0
        /\ \A input \in ClientInputs :
              (Offline /\ FindBraden(cplayers) # 0 /\ ClientReduceAssists(input))
                 => LET d == ParseInt(input)
                        current == cplayers[FindBraden(cplayers)].assists
                    IN  IF ~d.nan /\ d.val >= 1 /\ d.val <= current
                        THEN /\ event' = "reduceAssists:local"
                             /\ cplayers'[FindBraden(cplayers')].assists = current - d.val
                        ELSE /\ event' # "reduceAssists:local"
                             /\ cplayers' = cplayers ]_vars

\* a local reduce has taken all the assists the tracked player had
C31_Witness ==
    /\ event = "reduceAssists:local"
    /\ Offline
    /\ cplayers[FindBraden(cplayers)].assists = 0

\* the tasks that are a request to the server
Requests(tasks) == {k \in 1..Len(tasks) : tasks[k].fn # "setTimeout"}

\* the steps of addAssists and reduceAssists in which no error is thrown
LocalEvents ==
    {"addAssists:invalid", "addAssists:retry", "addAssists:local",
     "reduceAssists:invalid", "reduceAssists:retry",
     "reduceAssists:refused", "reduceAssists:local"}

\* C32: once errorCount has reached 3, addAssists and reduceAssists change
\* only the local list and send no request.  The requests the client can
\* still send are that of an undo with a non-null pointer and the refresh of
\* bootstrapUI, when the three errors were counted before the page was
\* ready; errorCount comes down only when a refresh succeeds.
C32_OfflineStaysLocal ==
    [][ (errorCount >= 3 /\ ~NoApi /\ clientVars' # clientVars) =>
          /\ event' \in LocalEvents
                => /\ Cardinality(Requests(pending')) <= Cardinality(Requests(pending))
                   /\ UNCHANGED <<memVars, lastAssistLogId, lastKnownState, errorCount>>
          /\ event' \notin {"addAssists:fetch", "reduceAssists:fetch",
                            "addAssists:ReferenceError", "reduceAssists:ReferenceError"}
          /\ Cardinality(Requests(pending')) > Cardinality(Requests(pending))
                => \/ /\ lastAssistLogId # NoId
                      /\ pending'[Len(pending')].fn = "undoLastUpdate"
                   \/ /\ page = "loaded"
                      /\ event' = "bootstrapUI:fetch"
          /\ errorCount' < errorCount
                => /\ event' = "refreshPlayers:ok"
                   /\ errorCount' = 0 ]_vars

\* with three errors counted and the server's list on the page, an add has
\* been applied to the local list alone
C32_Witness ==
    /\ ~NoApi
    /\ page = "ready"
    /\ ~lastKnownState.isNull
    /\ errorCount = 3
    /\ event = "addAssists:local"
    /\ pending = <<>>
    /\ cplayers[FindBraden(cplayers)].assists # players[FindPlayerById(players, 11)].assists

\* C32 as stated: with errorCount at 3 or more, the only request the client
\* sends is that of an undo with a non-null pointer, and errorCount comes
\* down only in the refresh that follows such an undo.
C32_OnlyUndoContacts ==
    [][ (errorCount >= 3 /\ ~NoApi /\ clientVars' # clientVars) =>
          /\ Cardinality(Requests(pending')) > Cardinality(Requests(pending))
                => /\ lastAssistLogId # NoId
                   /\ pending'[Len(pending')].fn = "undoLastUpdate"
          /\ errorCount' < errorCount
                => /\ event' = "refreshPlayers:ok"
                   /\ \E k \in 1..Len(pending) :
                         pending[k].fn = "refreshPlayers" /\ pending[k].caller = "undoLastUpdate" ]_vars

\* C33: the client's players list is sorted by assists, descending, whenever
\* an action has completed: after every applied refresh, every load of the
\* demo data and every local add or reduce.
C33_ClientListSorted ==
    \A i, j \in 1..Len(cplayers) : i < j => cplayers[i].assists >= cplayers[j].assists

\* a local add has moved the tracked player from the last place to the first
C33_Witness ==
    /\ event = "addAssists:local"
    /\ Len(cplayers) = 11
    /\ FindBraden(cplayers) = 1
    /\ cplayers[1].assists > cplayers[2].assists

\* the retry timers among the tasks
Timers(tasks) == {k \in 1..Len(tasks) : tasks[k].fn = "setTimeout"}

\* the step runs the retry that addAssists or reduceAssists had scheduled
RetryRuns ==
    /\ Cardinality(Timers(pending')) < Cardinality(Timers(pending))
    /\ Len(pending') < Len(pending)

====
